---- MODULE Spec2Model ----
(***************************************************************************)
(* Model of the time-series alignment engine of src/app.py:                *)
(* _clean_header, _detect_timestamp_column, _parse_csv and                  *)
(* _align_to_global (the pandas calls included).                            *)
(*                                                                         *)
(* Text.  A header is a sequence of tokens; "." is the separator token and *)
(* " " the whitespace token, every other token is a run of letters.        *)
(* Cells.  A cell is a natural number (a value that pandas parses, as a    *)
(* number and as a date/time, the number of seconds), NaN (an empty cell,  *)
(* also NaT) or Text (a string that is neither a number nor a date/time).  *)
(* Tables.  A DataFrame is [cols, rows]: the column labels in order (not   *)
(* necessarily distinct after a rename) and the rows in index order.       *)
(***************************************************************************)
EXTENDS Integers, Sequences, FiniteSets, TLC

VARIABLES
    original_df,    \* the primary table as read (process: original_df)
    extras,         \* the secondary tables as read (process: extras)
    tolerance_s,    \* process: tol_s
    pc,             \* position in process / _align_to_global
    err,            \* the exception raised, "" while none
    ts_col_clean,   \* _align_to_global: ts_col_clean
    global_df,      \* _align_to_global: global_df
    k,              \* index of the extra the loop of line 104 is at
    df,             \* _align_to_global: df (the prepared extra)
    ts2_clean,      \* _align_to_global: ts2_clean
    cols,           \* _align_to_global: cols
    matched,        \* merged as merge_asof returned it (before line 129)
    merged          \* _align_to_global: merged

vars == <<original_df, extras, tolerance_s, pc, err, ts_col_clean, global_df,
          k, df, ts2_clean, cols, matched, merged>>

----------------------------------------------------------------------------
(* Bounds *)

MaxRows == 3       \* rows of a table whose cells vary
MaxTime == 2       \* primary timestamps range over 0..MaxTime
MaxTol == 2        \* tolerance_s ranges over 0..MaxTol
MaxSecRows == 2    \* rows of a secondary whose cells vary
MaxCols == 3       \* columns of a primary whose headers vary
MaxExtras == 2     \* secondaries of a merge whose headers vary

----------------------------------------------------------------------------
(* Cells *)

NaN == -1
Text == -2

IsNum(c) == c >= 0

\* pd.to_datetime(..., errors="coerce") on one cell
to_datetime(c) == IF IsNum(c) THEN c ELSE NaN

----------------------------------------------------------------------------
(* Sequences *)

Range(s) == {s[i] : i \in 1..Len(s)}

Map(F(_), s) == [i \in 1..Len(s) |-> F(s[i])]

Count(s, x) == Cardinality({i \in 1..Len(s) : s[i] = x})

RECURSIVE Concat(_)
Concat(ss) == IF ss = <<>> THEN <<>> ELSE Head(ss) \o Concat(Tail(ss))

\* positions of s whose element satisfies Test, ascending
Positions(s, Test(_)) ==
    LET P == {i \in 1..Len(s) : Test(s[i])}
        RECURSIVE Asc(_, _)
        Asc(i, acc) == IF i > Len(s) THEN acc
                       ELSE Asc(i + 1, IF i \in P THEN Append(acc, i) ELSE acc)
    IN Asc(1, <<>>)

----------------------------------------------------------------------------
(* Text *)

LowerTok(t) ==
    CASE t = "Time" -> "time"
      [] t = "Stamp" -> "stamp"
      [] t = "Timestamp" -> "timestamp"
      [] t = "Date" -> "date"
      [] t = "Sequence" -> "sequence"
      [] t = "Seq" -> "seq"
      [] t = "Index" -> "index"
      [] t = "Temp" -> "temp"
      [] t = "Flow" -> "flow"
      [] t = "Note" -> "note"
      [] t = "Active" -> "active"
      [] t = "Power" -> "power"
      [] t = "A" -> "a"
      [] t = "B" -> "b"
      [] OTHER -> t

\* str.lower
lower(s) == Map(LowerTok, s)

RECURSIVE lstrip(_)
lstrip(s) == IF s # <<>> /\ Head(s) = " " THEN lstrip(Tail(s)) ELSE s

RECURSIVE rstrip(_)
rstrip(s) == IF s # <<>> /\ s[Len(s)] = " " THEN rstrip(SubSeq(s, 1, Len(s) - 1)) ELSE s

\* str.strip
strip(s) == rstrip(lstrip(s))

\* name.split(".", 1)[1]: what follows the first "."
AfterFirstDot(s) ==
    LET i == CHOOSE j \in 1..Len(s) : s[j] = "." /\ \A h \in 1..(j - 1) : s[h] # "."
    IN SubSeq(s, i + 1, Len(s))

clean_header(name) ==
    IF "." \in Range(name) THEN strip(AfterFirstDot(name)) ELSE strip(name)

\* the labels of line 50
TimestampLabels ==
    { <<"time", " ", "stamp">>, <<"timestamp">>, <<"date", " ", "time">>,
      <<"datetime">>, <<"time">>, <<"date">>, <<" ", "time", " ", "stamp">> }

\* the labels of line 66
SequenceLabels == { <<"sequence">>, <<"seq">>, <<"index">> }

----------------------------------------------------------------------------
(* DataFrames *)

NRows(t) == Len(t.rows)

\* all positions of the columns labelled name
ColsNamed(t, name) == Positions(t.cols, LAMBDA c : c = name)

\* position of the one column labelled name (the labels as read are distinct)
ColIndex(t, name) == CHOOSE j \in 1..Len(t.cols) : t.cols[j] = name

\* t[labels]: for each label, every column that carries it
SelectCols(t, labels) ==
    LET pos == Concat([i \in 1..Len(labels) |-> ColsNamed(t, labels[i])])
    IN [cols |-> [j \in 1..Len(pos) |-> t.cols[pos[j]]],
        rows |-> [i \in 1..NRows(t) |-> [j \in 1..Len(pos) |-> t.rows[i][pos[j]]]]]

\* df.drop(columns=labels, errors="ignore")
DropCols(t, labels) ==
    LET pos == Positions(t.cols, LAMBDA c : c \notin labels)
    IN [cols |-> [j \in 1..Len(pos) |-> t.cols[pos[j]]],
        rows |-> [i \in 1..NRows(t) |-> [j \in 1..Len(pos) |-> t.rows[i][pos[j]]]]]

\* df.rename(columns={c: _clean_header(c) ...})
RenameClean(t) == [cols |-> Map(clean_header, t.cols), rows |-> t.rows]

\* df[name] = pd.to_datetime(df[name], errors="coerce"), name at position j
ParseColumn(t, j) ==
    [cols |-> t.cols,
     rows |-> [i \in 1..NRows(t) |-> [t.rows[i] EXCEPT ![j] = to_datetime(@)]]]

\* df.dropna(subset=[name]), name at position j
dropna(t, j) ==
    [cols |-> t.cols, rows |-> SelectSeq(t.rows, LAMBDA r : r[j] # NaN)]

\* rows with r inserted after the last row whose key is <= r's (rows sorted)
RECURSIVE InsertSorted(_, _, _)
InsertSorted(rows, r, j) ==
    IF rows = <<>> THEN <<r>>
    ELSE IF rows[Len(rows)][j] <= r[j] THEN Append(rows, r)
    ELSE Append(InsertSorted(SubSeq(rows, 1, Len(rows) - 1), r, j), rows[Len(rows)])

RECURSIVE SortRows(_, _)
SortRows(rows, j) ==
    IF rows = <<>> THEN <<>>
    ELSE InsertSorted(SortRows(SubSeq(rows, 1, Len(rows) - 1), j), rows[Len(rows)], j)

sort_values_none(t, j) == t

\* df.sort_values(name), name at position j; rows with equal keys keep their
\* order (numpy's default sort is an insertion sort on runs this short)
sort_values(t, j) == [cols |-> t.cols, rows |-> SortRows(t.rows, j)]

drop_duplicates_keep_last(t, j) ==
    [cols |-> t.cols,
     rows |-> LET pos == {i \in 1..NRows(t) :
                            \A h \in (i + 1)..NRows(t) : t.rows[h][j] # t.rows[i][j]}
              IN [n \in 1..Cardinality(pos) |->
                    t.rows[CHOOSE i \in pos : Cardinality({h \in pos : h < i}) = n - 1]]]

\* df.drop_duplicates(subset=[name], keep="first"), name at position j
drop_duplicates(t, j) ==
    [cols |-> t.cols,
     rows |-> LET pos == {i \in 1..NRows(t) :
                            \A h \in 1..(i - 1) : t.rows[h][j] # t.rows[i][j]}
              IN [n \in 1..Cardinality(pos) |->
                    t.rows[CHOOSE i \in pos : Cardinality({h \in pos : h < i}) = n - 1]]]

----------------------------------------------------------------------------
(* _detect_timestamp_column, _parse_csv *)

\* the empty string stands for None: both fail "if not ts_col"
None == <<>>

IsTimestampLabel(c) == lower(strip(c)) \in TimestampLabels

\* pd.to_datetime(df[c], errors="raise") returns: no cell of the column is Text
ParsesAsDatetime(t, j) == \A i \in 1..NRows(t) : t.rows[i][j] # Text

detect_timestamp_column(t) ==
    LET cand == SelectSeq(t.cols, IsTimestampLabel)
        fb == Positions(t.cols, LAMBDA c : ParsesAsDatetime(t, ColIndex(t, c)))
    IN IF cand # <<>> THEN cand[1]
       ELSE IF fb # <<>> THEN t.cols[fb[1]] ELSE None

IsSequenceLabel(c) == lower(strip(c)) \in SequenceLabels

parse_csv(t) ==
    LET seq_cols == Range(SelectSeq(t.cols, IsSequenceLabel))
    IN IF seq_cols # {} THEN DropCols(t, seq_cols) ELSE t

----------------------------------------------------------------------------
(* _align_to_global: the pandas operations *)

Ok(t) == [err |-> "", df |-> t]
Raise(e, t) == [err |-> e, df |-> t]

EmptyDf == [cols |-> <<>>, rows |-> <<>>]

\* g[name] = value, name not a label of g, value the result of src[c]:
\* a KeyError when src has no column c, a ValueError when it has several
\* (a DataFrame cannot be set to a single column)
SetItem(g, name, value) ==
    IF Len(value.cols) = 0 THEN Raise("KeyError", g)
    ELSE IF Len(value.cols) > 1 THEN Raise("ValueError", g)
    ELSE Ok([cols |-> Append(g.cols, name),
             rows |-> [i \in 1..NRows(g) |-> Append(g.rows[i], value.rows[i][1])]])

\* lines 83-87, 90-91: the primary parsed, sorted, deduplicated, renamed
PrepareOriginal(t, ts_col) ==
    LET j == ColIndex(t, ts_col)
    IN RenameClean(drop_duplicates(sort_values(dropna(ParseColumn(t, j), j), j), j))

\* lines 97-99, from column n on
RECURSIVE SeedFrom(_, _, _, _)
SeedFrom(g, original, tsc, n) ==
    IF n > Len(original.cols) THEN Ok(g)
    ELSE LET c == original.cols[n]
         IN IF c = tsc THEN SeedFrom(g, original, tsc, n + 1)
            ELSE LET r == SetItem(g, c, SelectCols(original, <<c>>))
                 IN IF r.err # "" THEN r ELSE SeedFrom(r.df, original, tsc, n + 1)

\* lines 94-99
SeedGlobal(original, tsc) == SeedFrom(SelectCols(original, <<tsc>>), original, tsc, 1)

\* lines 110-111, 114: the extra parsed, sorted, deduplicated, renamed
PrepareExtra(t, ts2) ==
    LET j == ColIndex(t, ts2)
    IN RenameClean(drop_duplicates(sort_values(dropna(ParseColumn(t, j), j), j), j))

\* line 118
DataCols(t, ts2c) == SelectSeq(t.cols, LAMBDA c : c # ts2c)

\* merge_asof's tolerance test: a match at distance diff is kept
WithinTolerance_strict(diff, tol) == diff < tol

WithinTolerance(diff, tol) == ~(diff > tol)

\* last right position whose key is <= t, 0 when none or out of tolerance
asof_join_backward(t, rts, tol) ==
    LET S == {j \in 1..Len(rts) : rts[j] <= t}
        b == CHOOSE j \in S : \A h \in S : h <= j
    IN IF S = {} THEN 0 ELSE IF WithinTolerance(t - rts[b], tol) THEN b ELSE 0

\* first right position whose key is >= t, 0 when none or out of tolerance
asof_join_forward(t, rts, tol) ==
    LET S == {j \in 1..Len(rts) : rts[j] >= t}
        f == CHOOSE j \in S : \A h \in S : j <= h
    IN IF S = {} THEN 0 ELSE IF WithinTolerance(rts[f] - t, tol) THEN f ELSE 0

\* direction="nearest": the closer of the two, the backward one on a tie
asof_join_nearest(t, rts, tol) ==
    LET b == asof_join_backward(t, rts, tol)
        f == asof_join_forward(t, rts, tol)
    IN IF b # 0 /\ f # 0
       THEN (IF t - rts[b] <= rts[f] - t THEN b ELSE f)
       ELSE IF b # 0 THEN b ELSE f

\* lines 121-126: pd.merge_asof(g[[tsc]], d[[ts2c] + cs], left_on=tsc,
\* right_on=ts2c, direction="nearest", tolerance=tol), then the right key
\* dropped.  A key label that names several columns is a ValueError.  When the
\* key labels are equal the result holds the key once; a right column
\* labelled like the left key gets the suffix _y and the left key _x.
merge_asof(g, tsc, d, ts2c, cs, tol) ==
    LET left == SelectCols(g, <<tsc>>)
        right == SelectCols(d, <<ts2c>> \o cs)
        nr == Len(right.cols)
        rts == [j \in 1..NRows(right) |-> right.rows[j][1]]
        overlap == tsc # ts2c /\ tsc \in Range(cs)
        lname == IF overlap THEN tsc \o <<"_x">> ELSE tsc
        rname(c) == IF overlap /\ c = tsc THEN c \o <<"_y">> ELSE c
        first == IF tsc = ts2c THEN 2 ELSE 1
        names == <<lname>> \o [j \in 1..(nr - first + 1) |-> rname(right.cols[j + first - 1])]
        row(i) ==
            LET t == left.rows[i][1]
                m == asof_join_nearest(t, rts, tol)
            IN <<t>> \o [j \in 1..(nr - first + 1) |->
                           IF m = 0 THEN NaN ELSE right.rows[m][j + first - 1]]
    IN IF Len(left.cols) # 1 \/ Count(d.cols, ts2c) # 1
       THEN Raise("ValueError", EmptyDf)
       ELSE Ok(DropCols([cols |-> names, rows |-> [i \in 1..NRows(left) |-> row(i)]],
                        {ts2c}))

ffill_none(t) == t

\* line 129: DataFrame.ffill, every column filled down the rows
ffill(t) ==
    LET RECURSIVE Fill(_, _)
        Fill(i, j) == IF i = 0 THEN NaN
                      ELSE IF t.rows[i][j] # NaN THEN t.rows[i][j] ELSE Fill(i - 1, j)
    IN [cols |-> t.cols,
        rows |-> [i \in 1..NRows(t) |-> [j \in 1..Len(t.cols) |-> Fill(i, j)]]]

\* lines 137-141: the first of "base (2)", "base (3)", ... that is no label yet
RECURSIVE UniqueName(_, _, _)
UniqueName(base, i, labels) ==
    LET c == base \o <<" ", "(" \o ToString(i) \o ")">>
    IN IF c \in labels THEN UniqueName(base, i + 1, labels) ELSE c

\* lines 132-142, from the n-th of cs on
RECURSIVE AppendFrom(_, _, _, _)
AppendFrom(g, m, cs, n) ==
    IF n > Len(cs) THEN Ok(g)
    ELSE LET c == cs[n]
             name == IF c \notin Range(g.cols) THEN c
                     ELSE UniqueName(c, 2, Range(g.cols))
             r == SetItem(g, name, SelectCols(m, <<c>>))
         IN IF r.err # "" THEN r ELSE AppendFrom(r.df, m, cs, n + 1)

\* line 145: sort_values(ts_col_clean); a label of several columns is a ValueError
Tidy(g, tsc) ==
    IF Count(g.cols, tsc) # 1 THEN Raise("ValueError", g)
    ELSE Ok(sort_values(g, ColIndex(g, tsc)))

----------------------------------------------------------------------------
(* Inputs *)

H_Time == <<"Time">>
H_TimeStamp == <<"Time", " ", "Stamp">>
H_Timestamp == <<"Timestamp">>
H_Date == <<"Date">>
H_Flow == <<"Flow">>
H_Temp == <<"Temp">>
H_ATemp == <<"A", ".", "Temp">>
H_BTemp == <<"B", ".", "Temp">>
H_Sequence == <<"Sequence">>
H_DevSequence == <<"Dev", ".", "Sequence">>
H_ADot == <<"A", ".">>
H_XTime == <<"X", ".", "Time">>
H_Note == <<"Note">>
H_Power == <<"Active", " ", "Power">>
H_DevPower == <<"Dev", ".", "Active", " ", "Power">>
H_Power2 == <<"Active", " ", "Power", " ", "(2)">>

\* sequences over S of length lo..hi
SeqsOf(S, lo, hi) == UNION {[1..n -> S] : n \in lo..hi}

IsInjective(s) == \A i, j \in 1..Len(s) : s[i] = s[j] => i = j

\* a table with the given headers whose row i holds base + i in every column,
\* and Text in a column headed Note
FixedTable(headers, n, base) ==
    [cols |-> headers,
     rows |-> [i \in 1..n |-> [j \in 1..Len(headers) |->
                 IF headers[j] = H_Note THEN Text ELSE base + i]]]

\* a two-column table from its timestamp cells ts and its value cells vs
TwoColumns(h1, h2, ts, vs) ==
    [cols |-> <<h1, h2>>, rows |-> [i \in 1..Len(ts) |-> <<ts[i], vs[i]>>]]

\* primaries whose timestamp cells vary: unsorted, repeated, unparseable;
\* row i carries the value 10 + i
VaryingPrimaries ==
    { TwoColumns(H_Time, H_Flow, ts, [i \in 1..Len(ts) |-> 10 + i]) :
        ts \in SeqsOf((0..MaxTime) \cup {Text}, 0, MaxRows) }

SteadyPrimary ==
    TwoColumns(H_Time, H_Flow, [i \in 1..(MaxRows + 1) |-> 2 * (i - 1)],
               [i \in 1..(MaxRows + 1) |-> 10 + i])

SteadySecondary == TwoColumns(H_Time, H_Temp, <<1, 3>>, <<50, 60>>)

\* secondaries whose rows vary: a timestamp and a value or an empty cell
VaryingSecondaries ==
    { TwoColumns(H_Time, H_Temp, [i \in 1..Len(r) |-> r[i][1]],
                 [i \in 1..Len(r) |-> IF r[i][2] = 1 THEN 50 + i ELSE NaN]) :
        r \in SeqsOf((0..(MaxTime + 3)) \X {0, 1}, 0, MaxSecRows) }

PrimaryHeaders ==
    { H_Time, H_TimeStamp, H_XTime, H_ATemp, H_BTemp, H_Sequence,
      H_DevSequence, H_ADot, H_Note }

\* primaries whose headers vary (distinct, as read_csv returns them)
HeaderPrimaries ==
    { FixedTable(hs, 2, 0) : hs \in {h \in SeqsOf(PrimaryHeaders, 1, MaxCols) : IsInjective(h)} }

ExtraHeaders ==
    << <<H_Time, H_Power>>, <<H_Timestamp, H_DevPower>>, <<H_Note>>,
       <<H_Timestamp, H_XTime>>, <<H_Time, H_ATemp, H_BTemp>>, <<H_Time, H_Flow>>,
       <<H_Time, H_Power2, H_Power>>, <<H_Time, H_DevSequence, H_Sequence>>,
       <<H_Date, H_ADot>> >>

\* secondaries whose headers vary; the e-th holds 10 * e + i in row i
HeaderSecondaries == { FixedTable(ExtraHeaders[e], 2, 10 * e) : e \in 1..Len(ExtraHeaders) }

Inputs ==
    { [original |-> o, extras |-> x, tol |-> t] :
        o \in VaryingPrimaries, x \in SeqsOf({SteadySecondary}, 0, 2), t \in {0, MaxTol} }
    \cup
    { [original |-> SteadyPrimary, extras |-> <<x>>, tol |-> t] :
        x \in VaryingSecondaries, t \in {0, 1, MaxTol} }
    \cup
    { [original |-> o, extras |-> x, tol |-> 1] :
        o \in HeaderPrimaries, x \in SeqsOf({SteadySecondary}, 0, 1) }
    \cup
    { [original |-> FixedTable(<<H_Time, H_Flow>>, 2, 10), extras |-> x, tol |-> 1] :
        x \in SeqsOf(HeaderSecondaries, 0, MaxExtras) }

----------------------------------------------------------------------------
(* process and _align_to_global as a state machine *)

Init ==
    \E inp \in Inputs :
        /\ original_df = inp.original
        /\ extras = inp.extras
        /\ tolerance_s = inp.tol
        /\ pc = "parse"
        /\ err = ""
        /\ ts_col_clean = None
        /\ global_df = EmptyDf
        /\ k = 0
        /\ df = EmptyDf
        /\ ts2_clean = None
        /\ cols = <<>>
        /\ matched = EmptyDf
        /\ merged = EmptyDf

\* process, lines 377-381: every upload through _parse_csv
ParseCsv ==
    /\ pc = "parse"
    /\ original_df' = parse_csv(original_df)
    /\ extras' = [i \in 1..Len(extras) |-> parse_csv(extras[i])]
    /\ pc' = "align"
    /\ UNCHANGED <<tolerance_s, err, ts_col_clean, global_df, k, df, ts2_clean,
                   cols, matched, merged>>

\* _align_to_global, lines 79-99
Begin ==
    /\ pc = "align"
    /\ LET ts_col == detect_timestamp_column(original_df)
           original == PrepareOriginal(original_df, ts_col)
           tsc == clean_header(ts_col)
           r == SeedGlobal(original, tsc)
       IN IF ts_col = None
          THEN /\ pc' = "error"
               /\ err' = "ValueError"
               /\ UNCHANGED <<ts_col_clean, global_df, k>>
          ELSE /\ ts_col_clean' = tsc
               /\ global_df' = r.df
               /\ err' = r.err
               /\ pc' = IF r.err # "" THEN "error" ELSE "loop"
               /\ k' = IF r.err # "" THEN 0 ELSE 1
    /\ UNCHANGED <<original_df, extras, tolerance_s, df, ts2_clean, cols, matched, merged>>

AfterSkip_break(i, n) == n + 1

\* line 109: continue
AfterSkip(i, n) == i + 1

\* lines 104-109: an extra without a timestamp column is skipped
LoopSkip ==
    /\ pc = "loop"
    /\ k <= Len(extras)
    /\ detect_timestamp_column(extras[k]) = None
    /\ k' = AfterSkip(k, Len(extras))
    /\ UNCHANGED <<original_df, extras, tolerance_s, pc, err, ts_col_clean, global_df,
                   df, ts2_clean, cols, matched, merged>>

\* lines 104-118
LoopPrepare ==
    /\ pc = "loop"
    /\ k <= Len(extras)
    /\ LET ts2 == detect_timestamp_column(extras[k])
       IN /\ ts2 # None
          /\ df' = PrepareExtra(extras[k], ts2)
          /\ ts2_clean' = clean_header(ts2)
          /\ cols' = DataCols(df', ts2_clean')
    /\ pc' = "merge"
    /\ UNCHANGED <<original_df, extras, tolerance_s, err, ts_col_clean, global_df, k,
                   matched, merged>>

\* lines 121-126
MergeAsof ==
    /\ pc = "merge"
    /\ LET r == merge_asof(global_df, ts_col_clean, df, ts2_clean, cols, tolerance_s)
       IN /\ matched' = r.df
          /\ merged' = r.df
          /\ err' = r.err
          /\ pc' = IF r.err # "" THEN "error" ELSE "ffill"
    /\ UNCHANGED <<original_df, extras, tolerance_s, ts_col_clean, global_df, k, df,
                   ts2_clean, cols>>

\* line 129
Ffill ==
    /\ pc = "ffill"
    /\ merged' = ffill(merged)
    /\ pc' = "append"
    /\ UNCHANGED <<original_df, extras, tolerance_s, err, ts_col_clean, global_df, k,
                   df, ts2_clean, cols, matched>>

\* lines 132-142
AppendColumns ==
    /\ pc = "append"
    /\ LET r == AppendFrom(global_df, merged, cols, 1)
       IN /\ global_df' = IF r.err # "" THEN global_df ELSE r.df
          /\ err' = r.err
          /\ pc' = IF r.err # "" THEN "error" ELSE "loop"
          /\ k' = IF r.err # "" THEN k ELSE k + 1
    /\ UNCHANGED <<original_df, extras, tolerance_s, ts_col_clean, df, ts2_clean,
                   cols, matched, merged>>

\* lines 145-146
Finish ==
    /\ pc = "loop"
    /\ k > Len(extras)
    /\ LET r == Tidy(global_df, ts_col_clean)
       IN /\ global_df' = IF r.err # "" THEN global_df ELSE r.df
          /\ err' = r.err
          /\ pc' = IF r.err # "" THEN "error" ELSE "done"
    /\ UNCHANGED <<original_df, extras, tolerance_s, ts_col_clean, k, df, ts2_clean,
                   cols, matched, merged>>

Next ==
    \/ ParseCsv
    \/ Begin
    \/ LoopSkip
    \/ LoopPrepare
    \/ MergeAsof
    \/ Ffill
    \/ AppendColumns
    \/ Finish

Spec == Init /\ [][Next]_vars

----------------------------------------------------------------------------
(* _align_to_global as a function of its arguments *)

\* lines 104-142, from the n-th extra on, then lines 145-146
RECURSIVE MergeExtras(_, _, _, _, _)
MergeExtras(g, tsc, xs, tol, n) ==
    IF n > Len(xs) THEN Tidy(g, tsc)
    ELSE LET ts2 == detect_timestamp_column(xs[n])
             d == PrepareExtra(xs[n], ts2)
             t2 == clean_header(ts2)
             cs == DataCols(d, t2)
             m == merge_asof(g, tsc, d, t2, cs, tol)
             a == AppendFrom(g, ffill(m.df), cs, 1)
         IN IF ts2 = None THEN MergeExtras(g, tsc, xs, tol, AfterSkip(n, Len(xs)))
            ELSE IF m.err # "" THEN Raise(m.err, g)
            ELSE IF a.err # "" THEN Raise(a.err, g)
            ELSE MergeExtras(a.df, tsc, xs, tol, n + 1)

\* lines 71-146: [err, df], the exception raised or the table returned
align_to_global(original, xs, tol) ==
    LET ts_col == detect_timestamp_column(original)
        tsc == clean_header(ts_col)
        s == SeedGlobal(PrepareOriginal(original, ts_col), tsc)
    IN IF ts_col = None THEN Raise("ValueError", EmptyDf)
       ELSE IF s.err # "" THEN Raise(s.err, EmptyDf)
       ELSE MergeExtras(s.df, tsc, xs, tol, 1)

----------------------------------------------------------------------------
(* What the claims speak of *)

Abs(x) == IF x < 0 THEN 0 - x ELSE x

\* global_df holds the primary's rows and no exception was raised
Seeded == pc \in {"loop", "merge", "ffill", "append", "done"}

\* the extra the loop is at has been prepared
InIteration == pc \in {"merge", "ffill", "append"}

\* the primary's timestamp column as read, and its parseable timestamps
OrigTsPos == ColIndex(original_df, detect_timestamp_column(original_df))
OrigTimes == {original_df.rows[r][OrigTsPos] : r \in 1..NRows(original_df)} \cap Nat

\* the n-th smallest element of a set of numbers
NthSmallest(S, n) == CHOOSE x \in S : Cardinality({y \in S : y < x}) = n - 1

\* the first row as read whose cell in column j is x
FirstRowWith(t, j, x) ==
    CHOOSE r \in 1..NRows(t) : t.rows[r][j] = x /\ \A h \in 1..(r - 1) : t.rows[h][j] # x

\* the reference timestamp of row i of the output
RefTime(i) == global_df.rows[i][ColIndex(global_df, ts_col_clean)]

\* the secondary the loop is at, as read: its timestamp column and timestamps
ExtraTsPos == ColIndex(extras[k], detect_timestamp_column(extras[k]))
ExtraTimes == {extras[k].rows[r][ExtraTsPos] : r \in 1..NRows(extras[k])} \cap Nat

\* the sample timestamp nearest to t, the earlier one of two equally near
NearestTime(t) ==
    CHOOSE x \in ExtraTimes :
        \A y \in ExtraTimes : Abs(x - t) < Abs(y - t) \/ (Abs(x - t) = Abs(y - t) /\ x <= y)

\* row i of the reference clock has a sample within the tolerance
Accepted(i) ==
    ExtraTimes # {} /\ Abs(NearestTime(RefTime(i)) - RefTime(i)) <= tolerance_s

\* the column as read of the secondary that is sanitized to the label c
ExtraColOf(c) == CHOOSE q \in 1..Len(extras[k].cols) : clean_header(extras[k].cols[q]) = c

\* the value in column c of the sample nearest to row i
NearestValue(i, c) ==
    extras[k].rows[FirstRowWith(extras[k], ExtraTsPos, NearestTime(RefTime(i)))][ExtraColOf(c)]

\* the labels of the secondary's data columns that name one column of it and
\* are not the label of the primary's timestamp column
PlainCols == {c \in Range(cols) : Count(df.cols, c) = 1 /\ c # ts_col_clean}

Cell(t, i, c) == t.rows[i][ColIndex(t, c)]

Rows == 1..NRows(global_df)

----------------------------------------------------------------------------
(* C1: after the matching step (merge_asof, before the forward fill), every  *)
(* cell of every data column of the secondary at every reference timestamp t *)
(* is the value of the secondary sample nearest to t (the earlier of two     *)
(* equally near) when that sample is within the tolerance, and is absent     *)
(* otherwise; with tolerance 0 only a sample at exactly t is matched.        *)
C1_NearestWithinTolerance ==
    pc = "ffill" =>
        \A c \in PlainCols : \A i \in Rows :
            /\ Cell(matched, i, c) = IF Accepted(i) THEN NearestValue(i, c) ELSE NaN
            /\ (tolerance_s = 0 /\ RefTime(i) \notin ExtraTimes) => Cell(matched, i, c) = NaN

\* a match at exactly the tolerance, a tie of two samples, and a miss
C1_Witness ==
    /\ pc = "ffill"
    /\ tolerance_s > 0
    /\ \E c \in PlainCols : \E i, j, h \in Rows :
        /\ Accepted(i) /\ Abs(NearestTime(RefTime(i)) - RefTime(i)) = tolerance_s
        /\ Cell(matched, i, c) # NaN
        /\ Accepted(j) /\ {RefTime(j) - 1, RefTime(j) + 1} \subseteq ExtraTimes
        /\ ~Accepted(h) /\ ExtraTimes # {}

----------------------------------------------------------------------------
\* the rows before i whose reference timestamp has a sample within tolerance
EarlierAccepted(i) == {h \in 1..(i - 1) : Accepted(h)}

\* the rows before i whose cell of column c is not absent after the matching
EarlierValue(i, c) == {h \in 1..(i - 1) : Cell(matched, h, c) # NaN}

Last(S) == CHOOSE x \in S : \A y \in S : y <= x

(* C2 as stated: after the forward fill, a cell whose reference timestamp   *)
(* had no sample within tolerance holds the value of the most recent        *)
(* earlier accepted match of its column, and is absent when no accepted     *)
(* match precedes it.                                                       *)
C2_FillFromLastAcceptedMatch ==
    pc = "append" =>
        \A c \in PlainCols : \A i \in Rows :
            ~Accepted(i) =>
                Cell(merged, i, c) =
                    IF EarlierAccepted(i) = {} THEN NaN
                    ELSE NearestValue(Last(EarlierAccepted(i)), c)

(* C2 as amended: after the forward fill, a cell that the matching step    *)
(* left absent (no sample within tolerance, or the matched sample's cell   *)
(* of that column is empty) holds the most recent earlier value of its own *)
(* column that the matching step did not leave absent, and stays absent    *)
(* when there is none; every other cell keeps its matched value.           *)
C2_ForwardFill ==
    pc = "append" =>
        \A c \in PlainCols : \A i \in Rows :
            Cell(merged, i, c) =
                IF Cell(matched, i, c) # NaN THEN Cell(matched, i, c)
                ELSE IF EarlierValue(i, c) = {} THEN NaN
                ELSE Cell(matched, Last(EarlierValue(i, c)), c)

\* an absent cell before the first value, a cell filled over a miss, and a
\* cell filled over a matched sample whose value is empty
C2_Witness ==
    /\ pc = "append"
    /\ \E c \in PlainCols : \E i, j, h \in Rows :
        /\ Cell(merged, i, c) = NaN
        /\ ~Accepted(j) /\ Cell(merged, j, c) # NaN
        /\ Accepted(h) /\ Cell(matched, h, c) = NaN /\ Cell(merged, h, c) # NaN

----------------------------------------------------------------------------
(* C4: once the primary is loaded, and after every secondary merged, the   *)
(* output has one row per entry of the reference clock (the primary's      *)
(* parsed timestamps, ascending, without repeats): the timestamp column is *)
(* strictly increasing and no merge adds, removes or reorders rows.        *)
C4_RowsAreReferenceClock ==
    Seeded =>
        /\ NRows(global_df) = Cardinality(OrigTimes)
        /\ \A p \in 1..Len(global_df.cols) : \A i \in Rows :
             (global_df.cols[p] = ts_col_clean /\ Count(global_df.cols, ts_col_clean) = 1)
                => global_df.rows[i][p] = NthSmallest(OrigTimes, i)
        /\ \A i \in Rows : Len(global_df.rows[i]) = Len(global_df.cols)

\* two secondaries merged onto a primary read unsorted, with a repeated and
\* an unparseable timestamp
C4_Witness ==
    /\ pc = "done"
    /\ Len(extras) = 2
    /\ Len(global_df.cols) = 4
    /\ NRows(global_df) = 2
    /\ NRows(original_df) = 3
    /\ \E r \in 1..2 : original_df.rows[r][OrigTsPos] > original_df.rows[r + 1][OrigTsPos]
                       /\ IsNum(original_df.rows[r + 1][OrigTsPos])

----------------------------------------------------------------------------
\* the data columns of the primary as read whose sanitized label is not the
\* label of the timestamp column
OrigDataCols ==
    {q \in 1..Len(original_df.cols) :
        q # OrigTsPos /\ clean_header(original_df.cols[q]) # ts_col_clean}

----------------------------------------------------------------------------
\* the label base or "base (q)" for some q >= 2
IsNameFor(name, base) ==
    \/ name = base
    \/ \E q \in 2..(Len(global_df.cols) + Len(cols) + 2) :
            name = base \o <<" ", "(" \o ToString(q) \o ")">>

\* a data column of the secondary the loop is at is labelled like a column
\* that is already in the output
Collides == \E n \in 1..Len(cols) : cols[n] \in Range(global_df.cols)

\* the labels placed so far are distinct, and so are the secondary's own
LabelsDistinct == IsInjective(global_df.cols) /\ IsInjective(df.cols)

(* C3: when a data column of a secondary is sanitized to the label of a     *)
(* column already in the output (a primary data column, the primary        *)
(* timestamp column, a column of an earlier secondary), the merge places   *)
(* it under "<label> (q)" for the least q >= 2 not in use, with the        *)
(* secondary's own values, and the columns already placed keep their       *)
(* labels and values.                                                      *)
C3_CollisionLaw ==
    [][ (InIteration /\ LabelsDistinct /\ Collides) =>
          /\ pc' # "error"
          /\ pc = "append" =>
               /\ Len(global_df'.cols) = Len(global_df.cols) + Len(cols)
               /\ SubSeq(global_df'.cols, 1, Len(global_df.cols)) = global_df.cols
               /\ \A i \in Rows :
                    SubSeq(global_df'.rows[i], 1, Len(global_df.cols)) = global_df.rows[i]
               /\ \A n \in 1..Len(cols) :
                    LET p == Len(global_df.cols) + n
                        before == {global_df'.cols[h] : h \in 1..(p - 1)}
                        name == global_df'.cols[p]
                    IN /\ IF cols[n] \notin before THEN name = cols[n]
                          ELSE \E q \in 2..(p + 1) :
                                 /\ name = cols[n] \o <<" ", "(" \o ToString(q) \o ")">>
                                 /\ name \notin before
                                 /\ \A h \in 2..(q - 1) :
                                      cols[n] \o <<" ", "(" \o ToString(h) \o ")">> \in before
                       /\ \A i \in Rows : global_df'.rows[i][p] = Cell(merged, i, cols[n])
      ]_vars

----------------------------------------------------------------------------
\* two headers of the table are sanitized to the same label
TableCollides(t) == ~IsInjective(Map(clean_header, t.cols))

(* C6: the labels of the output are distinct and non-empty; a table in     *)
(* which two headers are equal once the prefix before the first "." is     *)
(* removed is merged with the later ones renamed, not refused.             *)
C6_UniqueNonEmptyNames ==
    /\ pc = "done" =>
         /\ IsInjective(global_df.cols)
         /\ \A p \in 1..Len(global_df.cols) : global_df.cols[p] # <<>>
    /\ (pc = "error" /\ detect_timestamp_column(original_df) # None) =>
         /\ ~TableCollides(original_df)
         /\ k \in 1..Len(extras) => ~TableCollides(extras[k])

----------------------------------------------------------------------------
(* C7: a column headed by a sequence label is in no table that             *)
(* _parse_csv returned and in no output, with or without a device prefix.  *)
C7_SequenceColumnsDropped ==
    /\ pc # "parse" =>
         \A t \in {original_df} \cup Range(extras) : \A c \in Range(t.cols) :
            lower(clean_header(c)) \notin SequenceLabels
    /\ pc = "done" =>
         \A c \in Range(global_df.cols) : lower(c) \notin SequenceLabels

----------------------------------------------------------------------------
Resolvable(t) == detect_timestamp_column(t) # None

(* C8: a secondary without a detectable timestamp column is skipped: the   *)
(* merge ends as the merge of the same inputs without that secondary ends, *)
(* with the same table (labels, order, values) or the same exception.      *)
C8_UnresolvableSecondarySkipped ==
    pc \in {"done", "error"} =>
        LET r == align_to_global(original_df, SelectSeq(extras, Resolvable), tolerance_s)
        IN /\ r.err = err
           /\ pc = "done" => r.df = global_df

\* an unresolvable secondary before a resolvable one that adds a column
C8_Witness ==
    /\ pc = "done"
    /\ \E n, m \in 1..Len(extras) : n < m /\ ~Resolvable(extras[n]) /\ Resolvable(extras[m])
    /\ Len(global_df.cols) > Len(original_df.cols)

----------------------------------------------------------------------------
(* C9: _align_to_global never returns a table without rows: a primary      *)
(* none of whose timestamp cells parses makes it raise.                    *)
C9_EmptyReferenceIsFatal ==
    (pc = "done" /\ NRows(original_df) > 0) => NRows(global_df) > 0

----------------------------------------------------------------------------
\* the timestamp labels by priority, as the claim lists them
PriorityLabels ==
    << <<"time", " ", "stamp">>, <<"timestamp">>, <<"datetime">>, <<"date">>, <<"time">> >>

\* at least half of the column's cells parse as a date/time
ClearsThreshold(t, j) ==
    2 * Cardinality({i \in 1..NRows(t) : IsNum(t.rows[i][j])}) >= NRows(t)

\* the columns headed by a timestamp label that clear the threshold
NamedCandidates(t) ==
    {j \in 1..Len(t.cols) :
        lower(strip(t.cols[j])) \in Range(PriorityLabels) /\ ClearsThreshold(t, j)}

PriorityRank(t, j) == CHOOSE p \in 1..Len(PriorityLabels) : PriorityLabels[p] = lower(strip(t.cols[j]))

(* C10: of several columns headed by timestamp labels, the one chosen is   *)
(* the first by the priority of its label, not by its position.            *)
C10_PriorityOrder ==
    (pc \notin {"parse", "align"} /\ Cardinality(NamedCandidates(original_df)) >= 2) =>
        \E j \in NamedCandidates(original_df) :
            /\ \A h \in NamedCandidates(original_df) :
                 PriorityRank(original_df, j) <= PriorityRank(original_df, h)
            /\ ts_col_clean = clean_header(original_df.cols[j])

====
